---------------------------- MODULE Spec2Model ----------------------------
(***************************************************************************)
(* State-machine model of the chart core of src/main.cpp: the mock series  *)
(* generator, the three rolling live series fed by the 1 Hz tick, the      *)
(* per-surface hover state, the fetch handler and the chart renderer.      *)
(*                                                                         *)
(* Conventions                                                             *)
(*   - an unsigned int is a pair <<hi, lo>> of 16-bit halves, so that all  *)
(*     arithmetic wraps modulo 2^32 as in the source;                      *)
(*   - a C string is the sequence of its character codes;                  *)
(*   - a double that is a ratio of integers is kept as its numerator over  *)
(*     a denominator named beside it (x positions over N-1, y positions    *)
(*     over max_val, pm readings in tenths, pointer x in half pixels).     *)
(***************************************************************************)
EXTENDS Integers, Sequences, FiniteSets

VARIABLES
    history_cpu,        \* std::vector<int> history_cpu
    history_mem,        \* std::vector<int> history_mem
    history_net,        \* std::vector<int> history_net
    live_tick,          \* int live_tick
    current_aqi_data,   \* AirQualityData current_aqi_data
    selected,           \* the selected string of city_dropdown
    labels,             \* texts and style of the result labels
    is_hovering,        \* widget data "is_hovering", per surface
    hover_x,            \* widget data "hover_x", per surface
    queued,             \* gtk_widget_queue_draw calls of the last handler, in order
    ev,                 \* the last handler that ran, with its inputs
    frame               \* what the last on_draw_chart call produced

vars == <<history_cpu, history_mem, history_net, live_tick, current_aqi_data,
          selected, labels, is_hovering, hover_x, queued, ev, frame>>

---------------------------------------------------------------------------
(* Bounds of the model *)

\* on_live_tick is taken at most this many times
MaxTicks == 2

---------------------------------------------------------------------------
(* unsigned int arithmetic, modulo 2^32 *)

Half == 65536

U32(hi, lo) == <<hi % Half, lo % Half>>

\* a * k + c (mod 2^32), for a multiplier k = <<kh, kl>> with kh, kl < 2^15
\* and an addend c < 2^15
MulAddU32(a, k, c) ==
    LET low == a[2] * k[2] + c
    IN  U32(((a[1] * k[2]) % Half) + ((a[2] * k[1]) % Half) + (low \div Half),
            low)

\* a % m for a small modulus m
ModU32(a, m) == (((a[1] % m) * (Half % m)) + (a[2] % m)) % m

---------------------------------------------------------------------------
(* get_mock_data *)

HistoryLen == 24

RECURSIVE HashFrom(_, _, _)
HashFrom(city, i, hash) ==
    IF i > Len(city) THEN hash
    ELSE HashFrom(city, i + 1, MulAddU32(hash, <<0, 31>>, city[i]))

\* unsigned int hash = 0; for (p = city; *p; p++) hash = hash * 31 + *p;
Hash(city) == HashFrom(city, 1, <<0, 0>>)

\* seed = seed * 1103515245 + 12345    (1103515245 = 16838 * 2^16 + 20077)
NextSeed(seed) == MulAddU32(seed, <<16838, 20077>>, 12345)

\* (unsigned int)(seed / 65536) % 32768, of the seed already advanced
RandOf(seed) == seed[1] % 32768

StatusOfUpTo(aqi) ==
    IF aqi < 50 THEN "Good"
    ELSE IF aqi < 100 THEN "Satisfactory"
    ELSE IF aqi < 200 THEN "Moderate"
    ELSE IF aqi < 300 THEN "Poor"
    ELSE "Very Bad"

StatusOf(aqi) ==
    IF aqi <= 50 THEN "Good"
    ELSE IF aqi <= 100 THEN "Satisfactory"
    ELSE IF aqi <= 200 THEN "Moderate"
    ELSE IF aqi <= 300 THEN "Poor"
    ELSE "Very Bad"

\* the same walk with each value pushed to the back
RECURSIVE WalkBack(_, _, _, _)
WalkBack(i, seed, current, history) ==
    IF i >= HistoryLen THEN history
    ELSE LET s1          == NextSeed(seed)
             fluctuation == (RandOf(s1) % 41) - 20
             v           == current + fluctuation
             val         == IF v < 0 THEN 0 ELSE v
         IN  WalkBack(i + 1, s1, val, history \o <<val>>)

\* the loop for (i = 0; i < 24; i++): each value goes to the front
RECURSIVE Walk(_, _, _, _)
Walk(i, seed, current, history) ==
    IF i >= HistoryLen THEN history
    ELSE LET s1          == NextSeed(seed)
             fluctuation == (RandOf(s1) % 41) - 20
             v           == current + fluctuation
             val         == IF v < 0 THEN 0 ELSE v
         IN  Walk(i + 1, s1, val, <<val>> \o history)

\* a generator whose seed also takes in a counter of the process
get_mock_data_seeded(city) ==
    LET hash == Hash(city)
        aqi  == ModU32(hash, 300) + 50
    IN  [city    |-> city,
         aqi     |-> aqi,
         status  |-> StatusOf(aqi),
         pm25    |-> aqi * 6,
         pm10    |-> aqi * 12,
         history |-> Walk(0, MulAddU32(hash, <<0, 1>>, live_tick), aqi, <<>>)]

get_mock_data(city) ==
    LET hash == Hash(city)
        aqi  == ModU32(hash, 300) + 50
    IN  [city    |-> city,
         aqi     |-> aqi,
         status  |-> StatusOf(aqi),
         pm25    |-> aqi * 6,       \* aqi * 0.6, in tenths
         pm10    |-> aqi * 12,      \* aqi * 1.2, in tenths
         history |-> Walk(0, hash, aqi, <<>>)]


---------------------------------------------------------------------------
(* The widgets and their wiring (on_activate) *)

Str_NewDelhi == <<78, 101, 119, 32, 68, 101, 108, 104, 105>>            \* "New Delhi"
Str_Mumbai   == <<77, 117, 109, 98, 97, 105>>                           \* "Mumbai"
Str_CPULoad  == <<67, 80, 85, 32, 76, 111, 97, 100>>                    \* "CPU Load"
Str_MemoryUsage == <<77, 101, 109, 111, 114, 121, 32, 85, 115, 97, 103, 101>>  \* "Memory Usage"
Str_NetworkTraffic ==
    <<78, 101, 116, 119, 111, 114, 107, 32, 84, 114, 97, 102, 102, 105, 99>>   \* "Network Traffic"
Str_Unknown  == <<85, 110, 107, 110, 111, 119, 110>>                    \* "Unknown"
Str_CPU      == <<67, 80, 85>>                                          \* "CPU"
Str_Mem      == <<77, 101, 109>>                                        \* "Mem"
Str_Memory   == <<77, 101, 109, 111, 114, 121>>                         \* "Memory"
Str_Network  == <<78, 101, 116, 119, 111, 114, 107>>                    \* "Network"

\* strstr(hay, needle) != NULL
StrStr(hay, needle) ==
    \E k \in 0..(Len(hay) - Len(needle)) :
        \A j \in 1..Len(needle) : hay[k + j] = needle[j]

\* get_mock_data reads nothing but its argument: its values for the names
\* the widgets are wired with are tabulated
KnownNames == {Str_NewDelhi, Str_Mumbai}

MockCache == [c \in KnownNames |-> get_mock_data(c)]

MockData(c) == IF c \in KnownNames THEN MockCache[c] ELSE get_mock_data(c)

\* every drawing area that on_activate gives a draw function
ChartSurfaces ==
    {"chart_area_current", "chart_area_delhi", "chart_area_mumbai",
     "chart_live_cpu", "chart_live_mem", "chart_live_net"}

\* widget data "city_name": NULL (the empty string here) unless set
city_name(s) ==
    IF s = "chart_area_delhi" THEN Str_NewDelhi
    ELSE IF s = "chart_area_mumbai" THEN Str_Mumbai
    ELSE <<>>

\* widget data "is_live"
is_live(s) == s \in {"chart_live_cpu", "chart_live_mem", "chart_live_net"}

\* widget data "live_type": NULL (the empty string here) unless set
live_type(s) ==
    IF s = "chart_live_cpu" THEN Str_CPULoad
    ELSE IF s = "chart_live_mem" THEN Str_MemoryUsage
    ELSE IF s = "chart_live_net" THEN Str_NetworkTraffic
    ELSE <<>>

HasControllerAny(s) == s \in ChartSurfaces

\* the surfaces that are given a GtkEventControllerMotion
HasController(s) ==
    s \in {"chart_area_current", "chart_live_cpu", "chart_live_mem", "chart_live_net"}

\* the ids the handlers look up with gtk_builder_get_object; layout.ui
\* declares all of them
Layout ==
    ChartSurfaces \cup {"city_dropdown", "aqi_result_box", "lbl_health_advice"}

\* the strings of the dropdown's model, and the one selected at startup
Cities == {Str_NewDelhi, Str_Mumbai}

FirstCity == Str_NewDelhi

---------------------------------------------------------------------------
(* The live samplers *)

\* (int)GetCPULoad(), (int)GetMemoryUsage(), (int)GetNetworkUsage(): one
\* reading of each counter, of either build
LiveReadings == {<<0, 50, 0>>, <<99, 73, 150>>}

get_live_data(type) ==
    LET history == IF StrStr(type, Str_CPU) THEN history_cpu
                   ELSE IF StrStr(type, Str_Mem) THEN history_mem
                   ELSE history_net
        aqi     == IF history = <<>> THEN 0 ELSE history[Len(history)]
    IN  [city    |-> type,
         aqi     |-> aqi,
         status  |-> "Live",
         pm25    |-> aqi * 5,       \* aqi * 0.5, in tenths
         pm10    |-> aqi * 11,      \* aqi * 1.1, in tenths
         history |-> history]

---------------------------------------------------------------------------
(* Events and frames *)

Event(kind, surface, arg) == [kind |-> kind, surface |-> surface, arg |-> arg]

\* static AirQualityData current_aqi_data: zero-initialised, empty history
NoData ==
    [city |-> <<>>, aqi |-> 0, status |-> "", pm25 |-> 0, pm10 |-> 0,
     history |-> <<>>]

\* no on_draw_chart call in this step
NoFrame ==
    [surface |-> "none", cmds |-> <<>>, n |-> 0, max_val |-> 0, den |-> 0,
     graph_w |-> 0, graph_h |-> 0, grid |-> <<>>, value_labels |-> <<>>,
     hovering |-> FALSE, mouse_x |-> 0, index |-> -1, min_dist |-> 0,
     overlay |-> FALSE, x |-> 0, y |-> 0, tooltip |-> <<>>,
     box_x |-> 0, box_y |-> 0, box_w |-> 0, box_h |-> 0,
     width |-> 0, height |-> 0, data |-> NoData]

NoLabels ==
    [city |-> <<>>, aqi |-> <<>>, status |-> "", pm25 |-> <<>>, pm10 |-> <<>>,
     advice |-> "", css |-> {}, visible |-> FALSE]

\* std::vector<int>{n, 0}: the two elements n and 0
ZerosBraced(n) == <<n, 0>>

\* std::vector<int>(n, 0)
Zeros(n) == [i \in 1..n |-> 0]

Init ==
    /\ history_cpu = Zeros(HistoryLen)
    /\ history_mem = Zeros(HistoryLen)
    /\ history_net = Zeros(HistoryLen)
    /\ live_tick = 0
    /\ current_aqi_data = NoData
    /\ selected = FirstCity
    /\ labels = NoLabels
    /\ is_hovering = [s \in ChartSurfaces |-> 0]
    /\ hover_x = [s \in ChartSurfaces |-> 0]
    /\ queued = <<>>
    /\ ev = Event("init", "none", <<>>)
    /\ frame = NoFrame

---------------------------------------------------------------------------
(* on_live_tick *)

PushNoEvict(history, v) == history \o <<v>>

\* if (h.size() >= 24) h.erase(h.begin()); h.push_back(v);
Push(history, v) ==
    IF Len(history) >= HistoryLen THEN Tail(history) \o <<v>>
    ELSE history \o <<v>>

\* the ids of the handler's list that the builder finds, in the list's order
RECURSIVE Found(_)
Found(ids) ==
    IF ids = <<>> THEN <<>>
    ELSE (IF Head(ids) \in Layout THEN <<Head(ids)>> ELSE <<>>) \o Found(Tail(ids))

TickTargetsAll ==
    <<"chart_area_current", "chart_live_cpu", "chart_live_mem", "chart_live_net">>

TickTargets == <<"chart_live_cpu", "chart_live_mem", "chart_live_net">>

on_live_tick(cpu, mem, net) ==
    /\ live_tick < MaxTicks
    /\ live_tick' = live_tick + 1
    /\ history_cpu' = Push(history_cpu, cpu)
    /\ history_mem' = Push(history_mem, mem)
    /\ history_net' = Push(history_net, net)
    /\ queued' = Found(TickTargets)
    /\ ev' = Event("tick", "none", <<cpu, mem, net>>)
    /\ frame' = NoFrame
    /\ UNCHANGED <<current_aqi_data, selected, labels, is_hovering, hover_x>>

---------------------------------------------------------------------------
(* on_fetch_aqi_clicked *)

\* snprintf "%d"
FmtInt(v) == <<v>>

\* snprintf "%.1f" of a reading held in tenths
FmtTenths(t) == <<t \div 10, t % 10>>

AdviceOf(aqi) ==
    IF aqi <= 50 THEN "good"
    ELSE IF aqi <= 100 THEN "acceptable"
    ELSE IF aqi <= 200 THEN "sensitive"
    ELSE IF aqi <= 300 THEN "everyone"
    ELSE "emergency"

CssOf(aqi) ==
    IF aqi <= 50 THEN "aqi-good"
    ELSE IF aqi <= 100 THEN "aqi-ok"
    ELSE "aqi-bad"

\* the "Update UI" part of the handler: label texts, advice, style, visibility
UpdateUI(old, data) ==
    [city    |-> data.city,
     aqi     |-> FmtInt(data.aqi),
     status  |-> data.status,
     pm25    |-> FmtTenths(data.pm25),
     pm10    |-> FmtTenths(data.pm10),
     advice  |-> IF "lbl_health_advice" \in Layout
                 THEN AdviceOf(data.aqi) ELSE old.advice,
     css     |-> (old.css \ {"aqi-good", "aqi-ok", "aqi-bad"})
                    \cup {CssOf(data.aqi)},
     visible |-> TRUE]

FetchTargetsNone == <<>>

FetchTargets == <<"chart_area_current">>

\* city is the string of the dropdown's selected item
on_fetch_aqi_clicked(city) ==
    /\ "city_dropdown" \in Layout
    /\ "aqi_result_box" \in Layout
    /\ current_aqi_data' = MockData(city)
    /\ labels' = UpdateUI(labels, MockData(city))
    /\ queued' = Found(FetchTargets)
    /\ ev' = Event("fetch", "none", city)
    /\ frame' = NoFrame
    /\ UNCHANGED <<history_cpu, history_mem, history_net, live_tick,
                   is_hovering, hover_x>>

---------------------------------------------------------------------------
(* on_chart_motion, on_chart_leave *)

\* (intptr_t)x of a double x given in half pixels: truncation toward zero
TruncHalf(x2) == IF x2 >= 0 THEN x2 \div 2 ELSE -((-x2) \div 2)

on_chart_motion_shared(widget, x2) ==
    /\ hover_x' = [s \in ChartSurfaces |-> TruncHalf(x2)]
    /\ is_hovering' = [is_hovering EXCEPT ![widget] = 1]
    /\ queued' = <<widget>>

on_chart_motion(widget, x2) ==
    /\ hover_x' = [hover_x EXCEPT ![widget] = TruncHalf(x2)]
    /\ is_hovering' = [is_hovering EXCEPT ![widget] = 1]
    /\ queued' = <<widget>>

on_chart_leave(widget) ==
    /\ is_hovering' = [is_hovering EXCEPT ![widget] = 0]
    /\ queued' = <<widget>>
    /\ UNCHANGED hover_x

\* a pointer-motion event over surface s, at x (in half pixels): the "motion"
\* signal of its controller, if it has one
PointerMotion(s, x2) ==
    /\ IF HasController(s) THEN on_chart_motion(s, x2)
       ELSE /\ queued' = <<>>
            /\ UNCHANGED <<is_hovering, hover_x>>
    /\ ev' = Event("motion", s, <<x2>>)
    /\ frame' = NoFrame
    /\ UNCHANGED <<history_cpu, history_mem, history_net, live_tick,
                   current_aqi_data, selected, labels>>

\* the pointer leaves surface s: the "leave" signal of its controller, if any
PointerLeave(s) ==
    /\ IF HasController(s) THEN on_chart_leave(s)
       ELSE /\ queued' = <<>>
            /\ UNCHANGED <<is_hovering, hover_x>>
    /\ ev' = Event("leave", s, <<>>)
    /\ frame' = NoFrame
    /\ UNCHANGED <<history_cpu, history_mem, history_net, live_tick,
                   current_aqi_data, selected, labels>>

---------------------------------------------------------------------------
(* on_draw_chart *)

margin_x == 40
margin_y == 20
right_pad == 20
min_scale == 100
far_dist == 9999

RECURSIVE MaxFrom(_, _, _)
MaxFrom(history, i, m) ==
    IF i > Len(history) THEN m
    ELSE MaxFrom(history, i + 1, IF history[i] > m THEN history[i] ELSE m)

MaxValNoFloor(history) == MaxFrom(history, 1, 0)

\* int max_val = 0; for (val : history) if (val > max_val) max_val = val;
\* if (max_val < 100) max_val = 100;
MaxVal(history) ==
    LET m == MaxFrom(history, 1, 0)
    IN  IF m < min_scale THEN min_scale ELSE m

Abs(v) == IF v < 0 THEN -v ELSE v

\* margin_x + i * step_x, times den = N - 1  (i counted from 0)
XPos(i, graph_w, den) == margin_x * den + i * graph_w

\* margin_y + graph_h - (v / (double)max_val * graph_h), times max_val
YPos(v, graph_h, max_val) == (margin_y + graph_h) * max_val - v * graph_h

\* the scan for the closest index: i, index count from 0, distances are
\* times den; a later sample replaces the found one only if strictly closer
RECURSIVE ClosestLast(_, _, _, _, _, _)
ClosestLast(i, n, graph_w, mouse_x, index, min_dist) ==
    IF i >= n THEN <<index, min_dist>>
    ELSE LET dist == Abs(XPos(i, graph_w, n - 1) - mouse_x * (n - 1))
         IN  IF dist <= min_dist
             THEN ClosestLast(i + 1, n, graph_w, mouse_x, i, dist)
             ELSE ClosestLast(i + 1, n, graph_w, mouse_x, index, min_dist)

RECURSIVE Closest(_, _, _, _, _, _)
Closest(i, n, graph_w, mouse_x, index, min_dist) ==
    IF i >= n THEN <<index, min_dist>>
    ELSE LET dist == Abs(XPos(i, graph_w, n - 1) - mouse_x * (n - 1))
         IN  IF dist < min_dist
             THEN Closest(i + 1, n, graph_w, mouse_x, i, dist)
             ELSE Closest(i + 1, n, graph_w, mouse_x, index, min_dist)

SnapsAlways(index, min_dist, graph_w) == index >= 0

\* index >= 0 && min_dist < step_x / 1.5, with min_dist times den:
\* min_dist / den < (graph_w / den) * 2 / 3
Snaps(index, min_dist, graph_w) == index >= 0 /\ 3 * min_dist < 2 * graph_w

\* the unit of the tooltip
TooltipUnit(s) ==
    IF ~is_live(s) THEN ""
    ELSE IF live_type(s) # <<>> /\ StrStr(live_type(s), Str_Network) THEN " Mbps"
    ELSE IF live_type(s) # <<>> /\ (StrStr(live_type(s), Str_CPU)
                                      \/ StrStr(live_type(s), Str_Memory)) THEN "%"
    ELSE ""

\* the unit of the value label, as the first and as the second block print it
ValueUnit(s, rate) ==
    IF live_type(s) # <<>> /\ (StrStr(live_type(s), Str_CPU)
                                 \/ StrStr(live_type(s), Str_Memory)) THEN "%"
    ELSE IF live_type(s) # <<>> /\ StrStr(live_type(s), Str_Network) THEN rate
    ELSE ""

\* the series the surface draws; NoData when the handler returns at once
DataToDraw(s) ==
    IF is_live(s) THEN get_live_data(IF live_type(s) # <<>> THEN live_type(s)
                                     ELSE Str_Unknown)
    ELSE IF city_name(s) # <<>> THEN MockData(city_name(s))
    ELSE current_aqi_data

\* box_x, times den: right of the marker, or left of it when it would pass
\* width - 20
BoxXNoFlip(x, box_w, width, den) == x + 10 * den

BoxX(x, box_w, width, den) ==
    IF x + 10 * den + box_w * den > (width - right_pad) * den
    THEN x - (10 + box_w) * den
    ELSE x + 10 * den

\* box_y, times max_val: above the marker, or below it when it would pass
\* margin_y
BoxY(y, box_h, max_val) ==
    IF y - (10 + box_h) * max_val < margin_y * max_val
    THEN y + 10 * max_val
    ELSE y - (10 + box_h) * max_val

\* the frame drawn for a non-empty series; tw, th are the text extents of
\* the tooltip as cairo_text_extents reports them
Render(s, data, width, height, tw, th) ==
    LET history == data.history
        n       == Len(history)
        den     == n - 1
        graph_w == width - margin_x - right_pad
        graph_h == height - 2 * margin_y
        max_val == MaxVal(history)
        live    == is_live(s) /\ history # <<>>
        hov     == is_hovering[s] # 0
        mouse_x == hover_x[s]
        found   == IF hov THEN Closest(0, n, graph_w, mouse_x, -1, far_dist * den)
                   ELSE <<-1, 0>>
        index   == found[1]
        overlay == hov /\ Snaps(index, found[2], graph_w)
        x       == IF overlay THEN XPos(index, graph_w, den) ELSE 0
        y       == IF overlay THEN YPos(history[index + 1], graph_h, max_val) ELSE 0
        box_w   == tw + 10
        box_h   == th + 10
    IN  [surface  |-> s,
         cmds     |-> <<"background", "grid", "line", "fill">>
                      \o (IF live THEN <<"value_label", "value_label">> ELSE <<>>)
                      \o (IF overlay THEN <<"guide", "marker", "tooltip">> ELSE <<>>),
         n        |-> n,
         max_val  |-> max_val,
         den      |-> den,
         graph_w  |-> graph_w,
         graph_h  |-> graph_h,
         grid     |-> [i \in 1..5 |-> (max_val * (i - 1)) \div 4],
         value_labels |-> IF live
                          THEN << <<history[n], ValueUnit(s, " MB/s")>>,
                                  <<history[n], ValueUnit(s, " Mbps")>> >>
                          ELSE <<>>,
         hovering |-> hov,
         mouse_x  |-> IF hov THEN mouse_x ELSE 0,
         index    |-> index,
         min_dist |-> found[2],
         overlay  |-> overlay,
         x        |-> x,
         y        |-> y,
         tooltip  |-> IF overlay THEN <<history[index + 1], TooltipUnit(s)>> ELSE <<>>,
         box_x    |-> IF overlay THEN BoxX(x, box_w, width, den) ELSE 0,
         box_y    |-> IF overlay THEN BoxY(y, box_h, max_val) ELSE 0,
         box_w    |-> IF overlay THEN box_w ELSE 0,
         box_h    |-> IF overlay THEN box_h ELSE 0,
         width    |-> width,
         height   |-> height,
         data     |-> data]

\* a call that paints the background before it looks at the series
SkippedPainted(s, width, height) ==
    [NoFrame EXCEPT !.surface = s, !.width = width, !.height = height,
                    !.cmds = <<"background">>]

\* the frame of a call that returns before painting
Skipped(s, width, height) ==
    [NoFrame EXCEPT !.surface = s, !.width = width, !.height = height]

\* a renderer that keeps the series it drew in the global
on_draw_chart_storing(s, width, height, tw, th) ==
    /\ frame' = IF DataToDraw(s).history = <<>> THEN Skipped(s, width, height)
                ELSE Render(s, DataToDraw(s), width, height, tw, th)
    /\ queued' = <<>>
    /\ ev' = Event("draw", s, <<width, height, tw, th>>)
    /\ current_aqi_data' = DataToDraw(s)
    /\ UNCHANGED <<history_cpu, history_mem, history_net, live_tick,
                   selected, labels, is_hovering, hover_x>>

on_draw_chart(s, width, height, tw, th) ==
    /\ frame' = IF DataToDraw(s).history = <<>> THEN Skipped(s, width, height)
                ELSE Render(s, DataToDraw(s), width, height, tw, th)
    /\ queued' = <<>>
    /\ ev' = Event("draw", s, <<width, height, tw, th>>)
    /\ UNCHANGED <<history_cpu, history_mem, history_net, live_tick,
                   current_aqi_data, selected, labels, is_hovering, hover_x>>

---------------------------------------------------------------------------
(* The program: any interleaving of the handlers on the one UI thread *)

\* pointer x positions of the motion events, in half pixels
MotionXs == {80, 81}

\* canvas sizes and tooltip text extents of the draws
Canvases == {<<290, 140, 12, 8>>}

Tick == \E r \in LiveReadings : on_live_tick(r[1], r[2], r[3])

\* the user selects a city of the dropdown and clicks the fetch button
Fetch == \E city \in Cities : selected' = city /\ on_fetch_aqi_clicked(city)

Motion == \E s \in ChartSurfaces : \E x2 \in MotionXs : PointerMotion(s, x2)

Leave == \E s \in ChartSurfaces : PointerLeave(s)

Draw == \E s \in ChartSurfaces : \E c \in Canvases :
            on_draw_chart(s, c[1], c[2], c[3], c[4])

Next == Tick \/ Fetch \/ Motion \/ Leave \/ Draw

Spec == Init /\ [][Next]_vars

---------------------------------------------------------------------------
(* The generator alone: fetches of names over a small alphabet *)

\* names are at most this long
MaxNameLen == 2

\* '%', '*', '-' and the digits '0'..'8': names over them reach every tier
\* and both sides of every tier boundary
MockAlphabet == {37, 42, 45} \cup (48..56)

NamesOfLen(n) == [1..n -> MockAlphabet]

MockNames == UNION {NamesOfLen(n) : n \in 1..MaxNameLen}

\* the state at startup, with any of the names as the dropdown's selection
InitMock ==
    /\ history_cpu = Zeros(HistoryLen)
    /\ history_mem = Zeros(HistoryLen)
    /\ history_net = Zeros(HistoryLen)
    /\ live_tick = 0
    /\ current_aqi_data = NoData
    /\ selected \in MockNames \cup Cities
    /\ labels = NoLabels
    /\ is_hovering = [s \in ChartSurfaces |-> 0]
    /\ hover_x = [s \in ChartSurfaces |-> 0]
    /\ queued = <<>>
    /\ ev = Event("init", "none", <<>>)
    /\ frame = NoFrame

\* the fetch button is clicked
FetchSelected == on_fetch_aqi_clicked(selected) /\ UNCHANGED selected

NextMock == FetchSelected

SpecMock == InitMock /\ [][NextMock]_vars

---------------------------------------------------------------------------
(* The renderer alone: one draw from each of a set of states that the     *)
(* handlers lead to                                                        *)

\* the state after k ticks that read r
AfterTicks(k, r, i) == [j \in 1..HistoryLen |-> IF j > HistoryLen - k THEN r[i] ELSE 0]

\* stored pointer positions: on a sample, between two samples, beside the
\* plot on either side, beyond the initial min_dist
RenderXs == {0, 25, 40, 45, 50, 140, 270, 285, 12000}

\* canvas sizes and tooltip extents: a plot 230 wide (step_x = 10), the same
\* 8 pixels high, a plot 100 wide, a plot of width 0, one of negative width,
\* and a tooltip wider than the canvas
RenderCanvases ==
    {<<290, 140, 12, 8>>, <<290, 8, 12, 8>>, <<160, 140, 30, 8>>,
     <<60, 140, 12, 8>>, <<40, 30, 12, 8>>, <<290, 140, 300, 8>>}

InitRender ==
    /\ \E k \in 0..MaxTicks : \E r \in LiveReadings :
          /\ history_cpu = AfterTicks(k, r, 1)
          /\ history_mem = AfterTicks(k, r, 2)
          /\ history_net = AfterTicks(k, r, 3)
          /\ live_tick = k
    /\ \/ current_aqi_data = NoData /\ labels = NoLabels /\ selected = FirstCity
       \/ \E city \in Cities :
             /\ current_aqi_data = MockData(city)
             /\ labels = UpdateUI(NoLabels, MockData(city))
             /\ selected = city
    /\ \/ is_hovering = [s \in ChartSurfaces |-> 0]
          /\ hover_x = [s \in ChartSurfaces |-> 0]
       \/ \E w \in {s \in ChartSurfaces : HasController(s)} : \E x \in RenderXs :
             /\ is_hovering = [s \in ChartSurfaces |-> IF s = w THEN 1 ELSE 0]
             /\ hover_x = [s \in ChartSurfaces |-> IF s = w THEN x ELSE 0]
    /\ queued = <<>>
    /\ ev = Event("init", "none", <<>>)
    /\ frame = NoFrame

DrawOnce ==
    /\ ev.kind = "init"
    /\ \E s \in ChartSurfaces : \E c \in RenderCanvases :
          on_draw_chart(s, c[1], c[2], c[3], c[4])

NextRender == DrawOnce

SpecRender == InitRender /\ [][NextRender]_vars

---------------------------------------------------------------------------
(* Properties *)

LiveCharts == {"chart_live_cpu", "chart_live_mem", "chart_live_net"}

Controlled == {"chart_area_current"} \cup LiveCharts

\* get_mock_data("Mumbai").history, as the compiled source prints it
MumbaiHistory ==
    <<141, 158, 166, 168, 154, 161, 147, 147, 154, 146, 129, 142,
      127, 119, 110, 129, 119, 104, 84, 96, 105, 113, 122, 136>>

\* C1: no live series is ever longer than 24, and a tick on a series of 24
\* samples leaves the previous series without its first element, followed by
\* the new sample.
C1_RollingFifo ==
    /\ [](/\ Len(history_cpu) <= 24
          /\ Len(history_mem) <= 24
          /\ Len(history_net) <= 24)
    /\ [][live_tick' # live_tick =>
            /\ Len(history_cpu) = 24 =>
                  history_cpu' = Tail(history_cpu) \o <<ev'.arg[1]>>
            /\ Len(history_mem) = 24 =>
                  history_mem' = Tail(history_mem) \o <<ev'.arg[2]>>
            /\ Len(history_net) = 24 =>
                  history_net' = Tail(history_net) \o <<ev'.arg[3]>>]_vars

\* two ticks have run on the full CPU series: the readings 99 and 0 are its
\* last two samples, in that order
C1_Witness ==
    /\ ev.kind = "tick"
    /\ live_tick = 2
    /\ Len(history_cpu) = 24
    /\ history_cpu[22] = 0 /\ history_cpu[23] = 99 /\ history_cpu[24] = 0

\* new is old (less its oldest sample, if one was evicted) with exactly one
\* more sample, v, at the end
AppendedOne(old, new, v) ==
    /\ new # <<>>
    /\ new[Len(new)] = v
    /\ \E evicted \in {0, 1} :
          /\ Len(new) = Len(old) + 1 - evicted
          /\ SubSeq(new, 1, Len(new) - 1) = SubSeq(old, 1 + evicted, Len(old))

\* C2: every tick appends exactly one sample to each live series and issues
\* exactly three repaint requests, one for each live chart and no other.
C2_TickEffect ==
    [][live_tick' # live_tick =>
         /\ ev'.kind = "tick"
         /\ AppendedOne(history_cpu, history_cpu', ev'.arg[1])
         /\ AppendedOne(history_mem, history_mem', ev'.arg[2])
         /\ AppendedOne(history_net, history_net', ev'.arg[3])
         /\ Len(queued') = 3
         /\ {queued'[i] : i \in 1..3} = LiveCharts]_vars

\* a tick that follows a fetch and a pointer motion
C2_Witness ==
    /\ ev.kind = "tick"
    /\ ev.arg = <<99, 73, 150>>
    /\ history_net[24] = 150
    /\ queued = <<"chart_live_cpu", "chart_live_mem", "chart_live_net">>
    /\ current_aqi_data.history # <<>>
    /\ is_hovering["chart_live_cpu"] = 1

\* C3: a fetch makes the selected city's mock series the current one, with
\* aqi, status, pm25 and pm10 of that city, and requests one repaint, of the
\* current chart; a later draw of the current chart renders that series.
C3_FetchEffect ==
    /\ ev.kind = "fetch" =>
          /\ current_aqi_data.city = ev.arg
          /\ current_aqi_data.aqi = ModU32(Hash(ev.arg), 300) + 50
          /\ current_aqi_data.history = Walk(0, Hash(ev.arg), current_aqi_data.aqi, <<>>)
          /\ current_aqi_data.status = StatusOf(current_aqi_data.aqi)
          /\ current_aqi_data.pm25 = current_aqi_data.aqi * 6
          /\ current_aqi_data.pm10 = current_aqi_data.aqi * 12
          /\ queued = <<"chart_area_current">>
    /\ (ev.kind = "draw" /\ ev.surface = "chart_area_current"
            /\ current_aqi_data.history # <<>>) =>
          /\ frame.cmds # <<>>
          /\ frame.data.city = selected
          /\ frame.data.history = Walk(0, Hash(selected), frame.data.aqi, <<>>)

\* "Mumbai" is fetched after at least one tick
C3_Witness ==
    /\ ev.kind = "fetch"
    /\ ev.arg = Str_Mumbai
    /\ live_tick >= 1
    /\ current_aqi_data.aqi = 143
    /\ current_aqi_data.status = "Moderate"
    /\ current_aqi_data.pm25 = 858
    /\ current_aqi_data.pm10 = 1716
    /\ current_aqi_data.history = MumbaiHistory
    /\ queued = <<"chart_area_current">>

OthersKeepHover(s) ==
    \A t \in ChartSurfaces \ {s} :
        is_hovering'[t] = is_hovering[t] /\ hover_x'[t] = hover_x[t]

\* C4, as amended: on a surface with a controller a motion event sets hovering
\* and stores the integer part of the event's x, a leave event sets idle,
\* each requests a repaint of that surface alone and leaves every other
\* surface's hover state and position as they were.
C4_HoverMachine ==
    [][/\ (ev'.kind = "motion" /\ ev'.surface \in Controlled) =>
            /\ is_hovering'[ev'.surface] = 1
            /\ 2 * hover_x'[ev'.surface] <= ev'.arg[1]
            /\ ev'.arg[1] < 2 * hover_x'[ev'.surface] + 2
            /\ queued' = <<ev'.surface>>
            /\ OthersKeepHover(ev'.surface)
       /\ (ev'.kind = "leave" /\ ev'.surface \in Controlled) =>
            /\ is_hovering'[ev'.surface] = 0
            /\ queued' = <<ev'.surface>>
            /\ OthersKeepHover(ev'.surface)]_vars

\* a motion at x = 40.5 on the CPU chart while the current chart is hovered
C4_Witness ==
    /\ ev = Event("motion", "chart_live_cpu", <<81>>)
    /\ is_hovering["chart_live_cpu"] = 1
    /\ hover_x["chart_live_cpu"] = 40
    /\ is_hovering["chart_area_current"] = 1
    /\ queued = <<"chart_live_cpu">>

\* C4 as stated: the stored position is the event's x itself
C4_Original ==
    [][/\ (ev'.kind = "motion" /\ ev'.surface \in Controlled) =>
            /\ is_hovering'[ev'.surface] = 1
            /\ 2 * hover_x'[ev'.surface] = ev'.arg[1]
            /\ queued' = <<ev'.surface>>
            /\ OthersKeepHover(ev'.surface)
       /\ (ev'.kind = "leave" /\ ev'.surface \in Controlled) =>
            /\ is_hovering'[ev'.surface] = 0
            /\ queued' = <<ev'.surface>>
            /\ OthersKeepHover(ev'.surface)]_vars

\* C5, as amended: pointer motion over the current chart or a live chart
\* sets that surface hovering and requests its repaint; over a fixed-city
\* chart it changes no hover state and requests nothing.
C5_MotionWhereControlled ==
    ev.kind = "motion" =>
        IF ev.surface \in Controlled
        THEN is_hovering[ev.surface] = 1 /\ queued = <<ev.surface>>
        ELSE is_hovering[ev.surface] = 0 /\ queued = <<>>

\* the pointer moves over the Mumbai chart while the network chart is hovered
C5_Witness ==
    /\ ev.kind = "motion"
    /\ ev.surface = "chart_area_mumbai"
    /\ is_hovering["chart_area_mumbai"] = 0
    /\ is_hovering["chart_live_net"] = 1
    /\ queued = <<>>

\* C5 as stated: motion over any chart surface sets it hovering and requests
\* its repaint
C5_Original ==
    ev.kind = "motion" =>
        is_hovering[ev.surface] = 1 /\ queued = <<ev.surface>>

\* C6: the status is decided by the base value alone, each tier closed at
\* its upper edge: up to 50 Good, 51..100 Satisfactory, 101..200 Moderate,
\* 201..300 Poor, from 301 on Very Bad.
C6_StatusTiers ==
    current_aqi_data.history # <<>> =>
        LET aqi    == current_aqi_data.aqi
            status == current_aqi_data.status
        IN  /\ (aqi <= 50) <=> (status = "Good")
            /\ (aqi \in 51..100) <=> (status = "Satisfactory")
            /\ (aqi \in 101..200) <=> (status = "Moderate")
            /\ (aqi \in 201..300) <=> (status = "Poor")
            /\ (aqi >= 301) <=> (status = "Very Bad")

\* a name whose base value is 50, the upper edge of the first tier
C6_Witness ==
    /\ ev.kind = "fetch"
    /\ current_aqi_data.aqi = 50
    /\ current_aqi_data.status = "Good"

\* C7: two calls of the generator with the same name, at different points of
\* a run, return the same record: the record a fixed-city chart draws equals
\* the record an earlier fetch of the same name stored, and for "Mumbai" it
\* is the one the compiled source prints.
C7_Deterministic ==
    (frame.surface \in {"chart_area_delhi", "chart_area_mumbai"}
        /\ frame.cmds # <<>>) =>
        /\ frame.data.city = current_aqi_data.city => frame.data = current_aqi_data
        /\ frame.data.city = Str_Mumbai =>
              frame.data.aqi = 143 /\ frame.data.history = MumbaiHistory

\* the Mumbai chart is drawn after a fetch of "Mumbai" and two ticks
C7_Witness ==
    /\ ev.kind = "draw"
    /\ frame.surface = "chart_area_mumbai"
    /\ current_aqi_data.city = Str_Mumbai
    /\ frame.data = current_aqi_data
    /\ live_tick = 2

\* the x position of sample k (counted from 0) of the frame, times den
SampleX(k) == 40 * frame.den + k * frame.graph_w

\* C8: a pointer exactly at the x position of sample k selects the smallest
\* index at that position, with distance 0; a pointer farther than
\* step_x / 1.5 from every sample draws no guide line, marker or tooltip.
C8_HitTest ==
    (frame.cmds # <<>> /\ frame.hovering) =>
        LET at  == frame.mouse_x * frame.den
            on  == {k \in 0..(frame.n - 1) : SampleX(k) = at}
        IN  /\ on # {} =>
                  /\ frame.min_dist = 0
                  /\ frame.index \in on
                  /\ \A k \in on : frame.index <= k
            /\ (\A k \in 0..(frame.n - 1) :
                    3 * Abs(SampleX(k) - at) > 2 * frame.graph_w) =>
                  /\ ~frame.overlay
                  /\ \A i \in 1..Len(frame.cmds) :
                        frame.cmds[i] \notin {"guide", "marker", "tooltip"}

\* the plot is 230 wide and the pointer at x = 50, the position of sample 1
C8_Witness ==
    /\ frame.hovering
    /\ frame.width = 290
    /\ frame.mouse_x = 50
    /\ frame.index = 1
    /\ frame.min_dist = 0
    /\ frame.overlay

\* C9: a tooltip box that is drawn passes neither the right edge nor the top
\* edge of the canvas.
C9_TooltipInside ==
    frame.overlay =>
        /\ frame.box_x + frame.box_w * frame.den <= frame.width * frame.den
        /\ frame.box_y >= 0

\* C10: the scale of a rendered series is the larger of 100 and its largest
\* sample.
C10_MaxVal ==
    frame.cmds # <<>> =>
        LET h == frame.data.history
        IN  /\ frame.max_val >= 100
            /\ \A i \in 1..Len(h) : h[i] <= frame.max_val
            /\ frame.max_val = 100 \/ \E i \in 1..Len(h) : h[i] = frame.max_val

\* the CPU chart is drawn at startup, every sample 0
C10_Witness ==
    /\ frame.surface = "chart_live_cpu"
    /\ frame.cmds # <<>>
    /\ \A i \in 1..Len(frame.data.history) : frame.data.history[i] = 0
    /\ frame.max_val = 100

\* C11: a draw changes neither a live series, nor the current-selection
\* data, nor the hover flag or hover position of any surface.
C11_DrawIsPure ==
    [][ev'.kind = "draw" =>
         /\ history_cpu' = history_cpu
         /\ history_mem' = history_mem
         /\ history_net' = history_net
         /\ current_aqi_data' = current_aqi_data
         /\ is_hovering' = is_hovering
         /\ hover_x' = hover_x]_vars

\* the hovered network chart is drawn after a fetch and two ticks
C11_Witness ==
    /\ ev.kind = "draw"
    /\ ev.surface = "chart_live_net"
    /\ frame.overlay
    /\ live_tick = 2
    /\ history_net[24] = 150
    /\ current_aqi_data.history # <<>>
    /\ is_hovering["chart_live_net"] = 1
    /\ hover_x["chart_live_net"] = 40

\* C12: while the current-selection history is empty, a draw of the current
\* chart emits no drawing command, hovered or not.
C12_EmptyIsNoOp ==
    (ev.kind = "draw" /\ ev.surface = "chart_area_current"
        /\ current_aqi_data.history = <<>>) =>
        /\ frame.cmds = <<>>
        /\ ~frame.overlay

\* the current chart is hovered and drawn before any fetch
C12_Witness ==
    /\ ev.kind = "draw"
    /\ ev.surface = "chart_area_current"
    /\ current_aqi_data.history = <<>>
    /\ is_hovering["chart_area_current"] = 1
    /\ frame.surface = "chart_area_current"
    /\ frame.cmds = <<>>

\* the walk step: cur = max(0, prev + f) for some f in -20..20
WalkStep(prev, cur) ==
    \E f \in -20..20 : cur = (IF prev + f < 0 THEN 0 ELSE prev + f)

\* C13: the generator yields a base value in 50..349 and 24 samples, none
\* negative; the last sample is one walk step from the base and every
\* sample is one walk step from the sample after it, so each of these pairs
\* differs by at most 20.
C13_MockWalk ==
    current_aqi_data.history # <<>> =>
        LET aqi == current_aqi_data.aqi
            h   == current_aqi_data.history
        IN  /\ aqi \in 50..349
            /\ Len(h) = 24
            /\ \A i \in 1..24 : h[i] >= 0
            /\ WalkStep(aqi, h[24])
            /\ Abs(h[24] - aqi) <= 20
            /\ \A i \in 1..23 : WalkStep(h[i + 1], h[i]) /\ Abs(h[i] - h[i + 1]) <= 20

\* the name "6": base 104, and a walk that is clamped at 0 twice, as the
\* compiled source prints it
C13_Witness ==
    /\ ev.kind = "fetch"
    /\ selected = <<54>>
    /\ current_aqi_data.aqi = 104
    /\ current_aqi_data.history =
          <<18, 0, 0, 13, 18, 28, 38, 56, 57, 46, 66, 72, 85, 76, 74, 89,
            108, 98, 87, 85, 100, 102, 114, 98>>

\* C14: every series whose step_x is computed has 24 samples, so N - 1 is
\* 23: the live series always hold 24 samples, and the current-selection
\* series holds none or 24.
C14_StepDefined ==
    /\ Len(history_cpu) = 24
    /\ Len(history_mem) = 24
    /\ Len(history_net) = 24
    /\ Len(current_aqi_data.history) \in {0, 24}
    /\ frame.cmds # <<>> =>
          /\ frame.n = 24
          /\ Len(frame.data.history) = 24
          /\ frame.den = 23

\* each kind of series is drawn: a live chart after two ticks
C14_Witness ==
    /\ ev.kind = "draw"
    /\ ev.surface = "chart_live_mem"
    /\ live_tick = 2
    /\ history_mem[23] = 73 /\ history_mem[24] = 50
    /\ current_aqi_data.history # <<>>
    /\ frame.cmds # <<>>
    /\ frame.n = 24
    /\ frame.den = 23

===========================================================================
